---- MODULE Spec2Model ----
(***************************************************************************)
(* Elastic hash table (src/elastic_hash_table.c): a state-machine model of *)
(* the table handle, its levels and slots, the heap buffers it owns, and   *)
(* the public operations eht_create / eht_insert / eht_delete / eht_get /  *)
(* eht_contains / eht_iter_next.                                           *)
(***************************************************************************)
EXTENDS Integers, Sequences, FiniteSets, TLC

(***************************************************************************)
(* 64-bit unsigned arithmetic.  A uint64_t is four 16-bit limbs, least     *)
(* significant first; every operation wraps modulo 2^64 as in C.           *)
(***************************************************************************)
Limb == 65536

U64Small(n) == <<n % Limb, (n \div Limb) % Limb, 0, 0>>

\* a + b (mod 2^64)
U64Add(a, b) ==
    LET s1 == a[1] + b[1]
        s2 == a[2] + b[2] + (s1 \div Limb)
        s3 == a[3] + b[3] + (s2 \div Limb)
        s4 == a[4] + b[4] + (s3 \div Limb)
    IN  <<s1 % Limb, s2 % Limb, s3 % Limb, s4 % Limb>>

\* a * m (mod 2^64) for a multiplier 0 <= m < 2^15
U64MulSmall(a, m) ==
    LET p1 == a[1] * m
        p2 == a[2] * m + (p1 \div Limb)
        p3 == a[3] * m + (p2 \div Limb)
        p4 == a[4] * m + (p3 \div Limb)
    IN  <<p1 % Limb, p2 % Limb, p3 % Limb, p4 % Limb>>

\* a << 40 (mod 2^64): two whole limbs and eight bits
U64Shl40(a) ==
    LET q3 == a[1] * 256
        q4 == a[2] * 256 + (q3 \div Limb)
    IN  <<0, 0, q3 % Limb, q4 % Limb>>

RECURSIVE BitXor(_, _)
BitXor(x, y) ==
    IF x = 0 THEN y
    ELSE IF y = 0 THEN x
    ELSE ((x + y) % 2) + 2 * BitXor(x \div 2, y \div 2)

BitOr1(x) == IF x % 2 = 1 THEN x ELSE x + 1

U64Xor(a, b) == <<BitXor(a[1], b[1]), BitXor(a[2], b[2]),
                  BitXor(a[3], b[3]), BitXor(a[4], b[4])>>

\* a % m for 1 <= m < 2^15
U64Mod(a, m) ==
    LET r4 == a[4] % m
        r3 == (r4 * Limb + a[3]) % m
        r2 == (r3 * Limb + a[2]) % m
    IN  (r2 * Limb + a[1]) % m

(***************************************************************************)
(* FNV-1a (64-bit) with salt, and the per-level dual hash.                 *)
(***************************************************************************)
\* 0xcbf29ce484222325
FNV_OFFSET == <<8997, 33826, 40164, 52210>>
\* 0x100000001b3 = 2^40 + 0x1b3
FNV_PRIME_LOW == 435
\* 0x9E3779B97F4A7C15 and 0x517CC1B727220A95
SALT1_MUL == <<31765, 32586, 31161, 40503>>
SALT2_MUL == <<2709, 10018, 49591, 20860>>
SALT1_ADD == 161
SALT2_ADD == 178

\* h *= 0x100000001b3
FnvMul(h) == U64Add(U64MulSmall(h, FNV_PRIME_LOW), U64Shl40(h))

RECURSIVE FnvFold(_, _, _)
FnvFold(h, key, i) ==
    IF i > Len(key) THEN h
    ELSE FnvFold(FnvMul(U64Xor(h, U64Small(key[i]))), key, i + 1)

\* A key is the sequence of its bytes before the terminating NUL.
fnv1a_salted(key, salt) == FnvFold(U64Xor(FNV_OFFSET, salt), key, 1)

dual_hash_compute(key, level) ==
    LET salt1 == U64Add(U64MulSmall(SALT1_MUL, level), U64Small(SALT1_ADD))
        salt2 == U64Add(U64MulSmall(SALT2_MUL, level), U64Small(SALT2_ADD))
        h1    == fnv1a_salted(key, salt1)
        g2    == fnv1a_salted(key, salt2)
    IN  [h1 |-> h1, h2 |-> <<BitOr1(g2[1]), g2[2], g2[3], g2[4]>>]

\* (h1 + attempt * h2) % capacity, the sum wrapping at 2^64
probe_idx(h1, h2, attempt, capacity) ==
    U64Mod(U64Add(h1, U64MulSmall(h2, attempt)), capacity)

(***************************************************************************)
(* Pointers and the heap.  A pointer is NULL or Ptr(contents of the block  *)
(* it points to).  The heap is the number of live blocks of each kind:     *)
(* "table" (the handle), "levels" (a SubArray array), "slots" (a Slot      *)
(* array), "key", "value" (owned copies) and "scratch" (rebuild's          *)
(* extraction arrays).  A call runs on a machine record m:                 *)
(*   t     the ElasticHashTable struct (NULL when there is no handle)      *)
(*   heap  the live blocks                                                 *)
(*   na    allocations requested so far in this call                       *)
(*   fail  the request that the allocator refuses (0: none)                *)
(*   ok    whether the last request was granted                            *)
(*   rc    the return code of the function that just returned              *)
(*   ev    ghost: the paths the call has taken                             *)
(*   depth ghost: nesting depth of rebuild's reinsertion loop              *)
(*   want  ghost: the new_capacity of the last rebuild                     *)
(***************************************************************************)
NULL == <<>>
Ptr(x) == <<x>>
Deref(p) == p[1]

HeapKinds == {"table", "levels", "slots", "key", "value", "scratch"}
EmptyHeap == [k \in HeapKinds |-> 0]

Machine(t, heap, fail) ==
    [t |-> t, heap |-> heap, na |-> 0, fail |-> fail, ok |-> TRUE, rc |-> 0,
     ev |-> {}, depth |-> 0, want |-> 0]

\* malloc / calloc: request number na + 1 of the call
malloc(m, kind) ==
    LET granted == (m.na + 1) # m.fail
    IN  [m EXCEPT !.na = @ + 1, !.ok = granted,
                  !.heap[kind] = IF granted THEN @ + 1 ELSE @]

\* free(p): a no-op on NULL
free(m, kind, p) ==
    IF p = NULL THEN m ELSE [m EXCEPT !.heap[kind] = @ - 1]

(***************************************************************************)
(* Slots, levels and the table.                                            *)
(***************************************************************************)
SLOT_EMPTY == 0
SLOT_OCCUPIED == 1
SLOT_TOMBSTONE == 2

\* calloc zeroes a slot: no key, no value, SLOT_EMPTY
ZeroSlot == [key |-> NULL, value |-> NULL, value_len |-> 0, state |-> SLOT_EMPTY]

\* A SubArray of a malloc'ed level array that subarray_init has not written:
\* its fields are indeterminate.
INDETERMINATE == -1
UninitSubArray ==
    [level |-> INDETERMINATE, capacity |-> INDETERMINATE, count |-> INDETERMINATE,
     tombstones |-> INDETERMINATE, slots |-> Ptr(<<>>)]

Level(t, li) == Deref(t.levels)[li + 1]
SlotAt(sub, idx) == Deref(sub.slots)[idx + 1]

(***************************************************************************)
(* Probe budget.  budget = (size_t)(3 + 3 * ln(1/eps)^2) + 1 with          *)
(* eps = 1 - used/capacity, i.e. 4 + the number of j >= 1 with             *)
(* 3 * ln(capacity/(capacity-used))^2 >= j, i.e. with                      *)
(* capacity/(capacity-used) >= e^sqrt(j/3).  LogThreshold[j] is            *)
(* ceil(10^6 * e^sqrt(j/3)); no ratio of two integers below 600 lies       *)
(* within 10^-6 of a threshold.                                            *)
(***************************************************************************)
LogScale == 1000000
LogThreshold == <<
  1781313, 2262560, 2718282, 3173074, 3636401, 4113251, 4606763, 5119175, 5652234, 6207399,
  6785950, 7389057, 8017816, 8673279, 9356470, 10068393, 10810049, 11582436, 12386554,
  13223413, 14094031, 14999440, 15940685, 16918829, 17934951, 18990148, 20085537, 21222257,
  22401465, 23624343, 24892095, 26205946, 27567149, 28976978, 30436735, 31947746, 33511364,
  35128968, 36801967, 38531794, 40319915, 42167821, 44077035, 46049110, 48085629, 50188206,
  52358487, 54598151, 56908909, 59292505, 61750720, 64285365, 66898290, 69591379, 72366552,
  75225766, 78171017, 81204337, 84327799, 87543513, 90853631, 94260344, 97765886, 101372531,
  105082598, 108898446, 112822482, 116857155, 121004959, 125268436, 129650173, 134152805,
  138779018, 143531541, 148413160, 153426705, 158575061, 163861165, 169288006, 174858626,
  180576123, 186443650, 192464415, 198641685, 204978783, 211479092, 218146054, 224983171,
  231994009, 239182193, 246551414, 254105426, 261848048, 269783165, 277914730, 286246764,
  294783357, 303528669, 312486931, 321662447, 331059592, 340682819, 350536654, 360625700,
  370954638, 381528226, 392351305, 403428794, 414765697, 426367099, 438238171, 450384169,
  462810437, 475522407, 488525600, 501825627, 515428194, 529339097, 543564229, 558109579,
  572981232, 588185372 >>

\* floor(3 * ln(ratio / 10^6)^2): the thresholds are increasing
RECURSIVE ThreeLogSq(_, _)
ThreeLogSq(ratio, j) ==
    IF j > Len(LogThreshold) \/ LogThreshold[j] > ratio THEN j - 1
    ELSE ThreeLogSq(ratio, j + 1)

probe_budget(sub) ==
    LET used == sub.count + sub.tombstones
    IN  IF used >= sub.capacity THEN sub.capacity
        ELSE LET ratio == (sub.capacity * LogScale) \div (sub.capacity - used)
                 b     == 3 + ThreeLogSq(ratio, 1) + 1
             IN  IF b < sub.capacity THEN b ELSE sub.capacity

(***************************************************************************)
(* Level construction.                                                     *)
(***************************************************************************)
\* the SubArray subarray_init writes when calloc returned slots
SubArrayOf(level, capacity, slots) ==
    [level |-> level, capacity |-> capacity, count |-> 0, tombstones |-> 0,
     slots |-> slots]

\* calloc(capacity, sizeof(Slot)) as request m1 of the call
Calloc(m1, capacity) ==
    IF m1.ok THEN Ptr([j \in 1..capacity |-> ZeroSlot]) ELSE NULL

\* subarray_init(&t->levels[i], level, capacity), m1 the machine after calloc
SubArrayStore(m1, i, level, capacity) ==
    [m1 EXCEPT !.t.levels = Ptr([Deref(@) EXCEPT ![i + 1] =
                                   SubArrayOf(level, capacity, Calloc(m1, capacity))]),
               !.rc = IF m1.ok THEN 0 ELSE -1]

\* An initialisation that numbers every level 0: C9_CapacityAccounting must
\* tell it from subarray_init.
subarray_init_level0(m, i, level, capacity) ==
    SubArrayStore(malloc(m, "slots"), i, 0, capacity)

subarray_init(m, i, level, capacity) ==
    SubArrayStore(malloc(m, "slots"), i, level, capacity)

RECURSIVE CountLevels(_, _)

\* A count that stops halving at four times min_level_size:
\* C10_LayoutBounds must tell it from CountLevels.
CountLevelsCoarse(tmp, min_level_size) ==
    IF tmp > min_level_size * 4
    THEN 1 + CountLevels(tmp - tmp \div 2, min_level_size)
    ELSE 1

\* the counting loop of build_levels
CountLevels(tmp, min_level_size) ==
    IF tmp > min_level_size * 2
    THEN 1 + CountLevels(tmp - tmp \div 2, min_level_size)
    ELSE 1

RECURSIVE InitLevels(_, _, _, _)

\* the initialising loop of build_levels after subarray_init of level i
\* has left m1
InitNext(m1, i, remaining, n_levels) ==
    IF m1.rc < 0 THEN m1
    ELSE InitLevels(m1, i + 1, remaining - remaining \div 2, n_levels)

\* the initialising loop of build_levels, from level i on
InitLevels(m, i, remaining, n_levels) ==
    IF i = n_levels - 1
    THEN subarray_init(m, i, i, remaining)
    ELSE InitNext(subarray_init(m, i, i, remaining \div 2), i, remaining, n_levels)

\* build_levels after malloc of the level array has left m1
BuildArray(m1, capacity, n_levels) ==
    IF ~m1.ok THEN [m1 EXCEPT !.t.levels = NULL, !.rc = -1]
    ELSE InitLevels([m1 EXCEPT !.t.levels = Ptr([i \in 1..n_levels |-> UninitSubArray]),
                               !.t.num_levels = n_levels],
                    0, capacity, n_levels)

build_levels(m, capacity) ==
    BuildArray(malloc(m, "levels"), capacity,
               CountLevels(capacity, m.t.min_level_size))

(***************************************************************************)
(* Create.                                                                 *)
(***************************************************************************)
MIN_CAPACITY == 64
MIN_LEVEL_SIZE == 16
\* max_load = 0.90 and tombstone_ratio = 0.15, held as hundredths
MAX_LOAD == 90
TOMBSTONE_RATIO == 15

\* lines 171-180: the fields eht_create sets before build_levels
NewTable(cap) ==
    [total_capacity  |-> cap,
     count           |-> 0,
     num_levels      |-> 0,
     min_level_size  |-> MIN_LEVEL_SIZE,
     max_load        |-> MAX_LOAD,
     tombstone_ratio |-> TOMBSTONE_RATIO,
     levels          |-> NULL]

\* lines 182-186: the return of eht_create, m3 the machine after build_levels
CreateResult(m3) ==
    IF m3.rc < 0
    THEN [free(m3, "table", Ptr(m3.t)) EXCEPT !.t = NULL, !.rc = -1]
    ELSE m3

\* eht_create after malloc of the table has left m1
CreateWith(m1, cap) ==
    IF ~m1.ok THEN [m1 EXCEPT !.rc = -1]
    ELSE CreateResult(build_levels([m1 EXCEPT !.t = NewTable(cap)], cap))

\* The handle is m.t; a NULL return is m.t = NULL with rc = -1.
eht_create(total_capacity, heap, fail) ==
    CreateWith(malloc(Machine(NULL, heap, fail), "table"),
               IF total_capacity < MIN_CAPACITY THEN MIN_CAPACITY ELSE total_capacity)

(***************************************************************************)
(* The keys of the workload, in the order in which it introduces them     *)
(* (ASCII bytes: "x", "k", "z", "w", "q", "n", "v", "g", "cy", "dfs",      *)
(* "bdh", "cp", "ahi", "fkv", "gp", ...), and their dual hashes at every   *)
(* level index (dual_hash is a pure function of the key bytes and the      *)
(* level index; HashTable evaluates it once per key and level).  In a      *)
(* table of capacity 64 the first eight keys take eight slots of level 0,  *)
(* "cy" collides with "x" and lands on its second probe, the next four     *)
(* keys find their four probes of level 0 taken and land in level 1, and   *)
(* "fkv" finds its probes taken in both levels.                            *)
(***************************************************************************)
KeySeq == <<
    <<120>>, <<107>>, <<122>>, <<119>>, <<113>>, <<110>>,
    <<118>>, <<103>>, <<99,121>>, <<100,102,115>>, <<98,100,104>>, <<99,112>>,
    <<97,104,105>>, <<102,107,118>>, <<103,112>>, <<102,118>>, <<107,109>>, <<99,111>>,
    <<110,100>>, <<108,121>>, <<120,118>>, <<120,101>>, <<97,100>>, <<120,111>>,
    <<110,107>>, <<99,113>>, <<109,104>>, <<111,98>>, <<109,100>>, <<116,97>>,
    <<109,110>>, <<104,106>>, <<115,114>>, <<104,97>>, <<99,103>>, <<107,101>>,
    <<97,120>>, <<111,101>>, <<112,122>>, <<97,115>>, <<118,115>>, <<113,111>>,
    <<111,109>>, <<111,120>>, <<119,119>>, <<97,106>>, <<114,120>>, <<98,118>>,
    <<104,102>>, <<121,113>>, <<104,118>>, <<101,116>>, <<106,116>>, <<115,104>>,
    <<110,113>>, <<117,103>>, <<117,116>>, <<106,121>>, <<101,105>>, <<120,104>>,
    <<111,111>>, <<108,115>>, <<98,108>>, <<114,100>> >>

KeySet == {KeySeq[i] : i \in 1..Len(KeySeq)}

\* The keys of the dense workload, in the order in which it introduces them
\* ("u", "nwf", "za", "nac", "tz", "ey", "q", "lc", "vw", "pt", ..., "l",
\* "ktz"): a table of capacity 64 takes the first 46 without growing; once
\* the first nine are deleted, the insert of "ktz" compacts the table, and
\* the reinsertion of the 37 live entries in slot order exhausts the cascade.
DenseKeySeq == <<
    <<117>>, <<110,119,102>>, <<122,97>>, <<110,97,99>>, <<116,122>>,
    <<101,121>>, <<113>>, <<108,99>>, <<118,119>>, <<112,116>>,
    <<100,100,113>>, <<112,103,101>>, <<106>>, <<119,118>>, <<114,99>>,
    <<102,116>>, <<106,100>>, <<106,107,104>>, <<101,122,104>>,
    <<117,120>>, <<106,105>>, <<115,102,110>>, <<98,108>>, <<107,116>>,
    <<104,107>>, <<100,106>>, <<100,116,101>>, <<105>>, <<112>>, <<120>>,
    <<114,118,107>>, <<99,114,122>>, <<114,117>>, <<122,98>>,
    <<121,102,107>>, <<98,108,110>>, <<107,122>>, <<118>>, <<115,114>>,
    <<100,122,101>>, <<110,119>>, <<101,110,103>>, <<100,98,113>>, <<110>>,
    <<122,104,119>>, <<108>>, <<107,116,122>> >>

DenseKeySet == {DenseKeySeq[i] : i \in 1..Len(DenseKeySeq)}

MaxLevels == 6

HashTable ==
    [k \in KeySet \cup DenseKeySet |->
        [l \in 0..(MaxLevels - 1) |-> dual_hash_compute(k, l)]]

dual_hash(key, level) ==
    IF key \in KeySet \cup DenseKeySet /\ level < MaxLevels
    THEN HashTable[key][level]
    ELSE dual_hash_compute(key, level)

(***************************************************************************)
(* find_key: (level_idx, slot_idx), or level_idx = -1.                     *)
(***************************************************************************)
RECURSIVE FindProbe(_, _, _, _, _)

\* A lookup that stops at a Tombstone as it does at an Empty slot:
\* C2_RefinesMap must tell it from FindStep.
FindStepTombstoneEnds(sub, key, h, a, budget, idx) ==
    IF SlotAt(sub, idx).state = SLOT_OCCUPIED /\ SlotAt(sub, idx).key = Ptr(key)
    THEN idx
    ELSE IF SlotAt(sub, idx).state # SLOT_OCCUPIED THEN -1
    ELSE FindProbe(sub, key, h, a + 1, budget)

\* one attempt of find_key at slot idx
FindStep(sub, key, h, a, budget, idx) ==
    IF SlotAt(sub, idx).state = SLOT_OCCUPIED /\ SlotAt(sub, idx).key = Ptr(key)
    THEN idx
    ELSE IF SlotAt(sub, idx).state = SLOT_EMPTY THEN -1
    ELSE FindProbe(sub, key, h, a + 1, budget)

\* the attempt loop of find_key at one level: the slot index, or -1
FindProbe(sub, key, h, a, budget) ==
    IF a >= budget THEN -1
    ELSE FindStep(sub, key, h, a, budget, probe_idx(h.h1, h.h2, a, sub.capacity))

RECURSIVE FindLevel(_, _, _)

\* find_key after the attempt loop of level li has left idx
FindNext(t, key, li, idx) ==
    IF idx >= 0 THEN [level_idx |-> li, slot_idx |-> idx]
    ELSE FindLevel(t, key, li + 1)

\* A lookup with the budget the level had when it was built, not the one
\* its fill gives it now: C12_LiveKeysReachable must tell it from FindIn.
FindInStale(t, key, li, sub) ==
    IF sub.count = 0 THEN FindLevel(t, key, li + 1)
    ELSE FindNext(t, key, li,
                  FindProbe(sub, key, dual_hash(key, sub.level), 0,
                            probe_budget(SubArrayOf(sub.level, sub.capacity, sub.slots))))

\* find_key at level sub = t->levels[li]
FindIn(t, key, li, sub) ==
    IF sub.count = 0 THEN FindLevel(t, key, li + 1)
    ELSE FindNext(t, key, li,
                  FindProbe(sub, key, dual_hash(key, sub.level), 0, probe_budget(sub)))

\* the level loop of find_key, from level li on
FindLevel(t, key, li) ==
    IF li >= t.num_levels THEN [level_idx |-> -1, slot_idx |-> 0]
    ELSE FindIn(t, key, li, Level(t, li))

find_key(t, key) == FindLevel(t, key, 0)

(***************************************************************************)
(* insert_owned and rebuild.                                               *)
(***************************************************************************)
RECURSIVE PlaceProbe(_, _, _, _)

\* A cascade that claims Empty slots only and passes over Tombstones:
\* C13_FirstClaimableSlot must tell it from PlaceStep.
PlaceStepEmptyOnly(sub, h, a, budget, idx) ==
    IF SlotAt(sub, idx).state = SLOT_EMPTY
    THEN idx
    ELSE PlaceProbe(sub, h, a + 1, budget)

\* one attempt of insert_owned at slot idx
PlaceStep(sub, h, a, budget, idx) ==
    IF SlotAt(sub, idx).state = SLOT_EMPTY \/ SlotAt(sub, idx).state = SLOT_TOMBSTONE
    THEN idx
    ELSE PlaceProbe(sub, h, a + 1, budget)

\* the attempt loop of insert_owned at one level: the first Empty or
\* Tombstone slot within budget, or -1
PlaceProbe(sub, h, a, budget) ==
    IF a >= budget THEN -1
    ELSE PlaceStep(sub, h, a, budget, probe_idx(h.h1, h.h2, a, sub.capacity))

RECURSIVE PlaceLevel(_, _, _)

\* insert_owned after the attempt loop of level li has left idx
PlaceNext(t, key, li, idx) ==
    IF idx >= 0 THEN [level_idx |-> li, slot_idx |-> idx]
    ELSE PlaceLevel(t, key, li + 1)

\* insert_owned at level sub = t->levels[li]
PlaceIn(t, key, li, sub) ==
    PlaceNext(t, key, li,
              PlaceProbe(sub, dual_hash(key, sub.level), 0, probe_budget(sub)))

\* the level loop of insert_owned, from level li on
PlaceLevel(t, key, li) ==
    IF li >= t.num_levels THEN [level_idx |-> -1, slot_idx |-> 0]
    ELSE PlaceIn(t, key, li, Level(t, li))

\* A claim that forgets to count the Tombstone it takes: C8_CountersMatch
\* must tell it from ClaimIn.
ClaimInKeepsTombstone(sub, state, idx, key, value, value_len) ==
    [sub EXCEPT
       !.slots = Ptr([Deref(@) EXCEPT ![idx + 1] =
                        [key |-> key, value |-> value,
                         value_len |-> value_len, state |-> SLOT_OCCUPIED]]),
       !.count = @ + 1]

\* lines 254-264 on level sub, whose slot idx was in state `state`
ClaimIn(sub, state, idx, key, value, value_len) ==
    [sub EXCEPT
       !.tombstones = IF state = SLOT_TOMBSTONE THEN @ - 1 ELSE @,
       !.slots = Ptr([Deref(@) EXCEPT ![idx + 1] =
                        [key |-> key, value |-> value,
                         value_len |-> value_len, state |-> SLOT_OCCUPIED]]),
       !.count = @ + 1]

\* lines 254-264: claim slot idx of level li for the owned buffers
ClaimSlot(t, li, idx, key, value, value_len) ==
    [t EXCEPT !.levels = Ptr([Deref(@) EXCEPT ![li + 1] =
                 ClaimIn(@, SlotAt(@, idx).state, idx, key, value, value_len)]),
              !.count = @ + 1]

\* rebuild step 1: the (key, value, value_len) tuples of the Occupied slots,
\* levels in order, slots in array order
RECURSIVE ExtractEntries(_, _)
ExtractEntries(t, li) ==
    IF li >= t.num_levels THEN <<>>
    ELSE SelectSeq(Deref(Level(t, li).slots), LAMBDA s : s.state = SLOT_OCCUPIED)
         \o ExtractEntries(t, li + 1)

\* An extraction that leaves the stolen pointers in the old slots, which
\* subarray_destroy then frees: C11_ExclusiveOwnership must tell it from
\* StealPointers.
StealPointersKeeps(t) == t

\* rebuild step 1: the stolen pointers are cleared in the old slots
StealPointers(t) ==
    IF t.levels = NULL THEN t
    ELSE [t EXCEPT !.levels = Ptr([li \in 1..t.num_levels |->
            [Deref(@)[li] EXCEPT !.slots = Ptr([j \in 1..Len(Deref(@)) |->
                IF Deref(@)[j].state = SLOT_OCCUPIED
                THEN [Deref(@)[j] EXCEPT !.key = NULL, !.value = NULL]
                ELSE Deref(@)[j]])]])]

\* free(key); free(value) for each of a sequence of slots or tuples: one
\* block less for every pointer that is not NULL
FreeData(m, entries) ==
    [m EXCEPT !.heap.key   = @ - Len(SelectSeq(entries, LAMBDA e : e.key # NULL)),
              !.heap.value = @ - Len(SelectSeq(entries, LAMBDA e : e.value # NULL))]

subarray_destroy(m, sub) ==
    IF sub.slots = NULL THEN m
    ELSE free(FreeData(m, SelectSeq(Deref(sub.slots),
                                    LAMBDA s : s.state = SLOT_OCCUPIED)),
              "slots", sub.slots)

\* subarray_destroy on levels li.. of m.t, then free(t->levels)
RECURSIVE DestroyLevels(_, _)
DestroyLevels(m, li) ==
    IF li >= m.t.num_levels THEN free(m, "levels", m.t.levels)
    ELSE DestroyLevels(subarray_destroy(m, Level(m.t, li)), li + 1)

RECURSIVE insert_owned(_, _, _, _)
RECURSIVE rebuild(_, _)
RECURSIVE Reinsert(_, _, _, _)

\* A retry that gives up after the rebuild instead of running the cascade
\* again: C18_InsertTerminates must tell it from RetryInsert.
RetryInsertGivesUp(m1, key, value, value_len) == [m1 EXCEPT !.rc = -1]

\* lines 268-270: the retry after rebuild has left m1
RetryInsert(m1, key, value, value_len) ==
    IF m1.rc < 0 THEN [m1 EXCEPT !.rc = -1]
    ELSE insert_owned(m1, key, value, value_len)

\* insert_owned after the cascade has left p: the slot to claim, or
\* level_idx = -1 when every level is exhausted
InsertAt(m, p, key, value, value_len) ==
    IF p.level_idx >= 0
    THEN [m EXCEPT !.t = ClaimSlot(m.t, p.level_idx, p.slot_idx,
                                   key, value, value_len),
                   !.rc = 0]
    ELSE RetryInsert(rebuild([m EXCEPT !.ev = @ \cup
                                {IF m.depth > 0 THEN "nested" ELSE "exhaust"}],
                             m.t.total_capacity * 2),
                     key, value, value_len)

insert_owned(m, key, value, value_len) ==
    InsertAt(m, PlaceLevel(m.t, Deref(key), 0), key, value, value_len)

\* the second half of a range of rebuild step 4: the return value of
\* insert_owned in m1 is not looked at
ReinsertRest(m1, entries, lo, hi) ==
    IF m1.rc < 0 THEN Reinsert(m1, entries, lo, hi)
    ELSE Reinsert(m1, entries, lo, hi)

\* rebuild step 4: insert_owned for tuples lo..hi in order.  (The range is
\* split in halves, which keeps the order of the calls and bounds the depth
\* of the evaluation.)
Reinsert(m, entries, lo, hi) ==
    IF lo > hi THEN m
    ELSE IF lo = hi
    THEN insert_owned(m, entries[lo].key, entries[lo].value, entries[lo].value_len)
    ELSE ReinsertRest(Reinsert(m, entries, lo, (lo + hi) \div 2),
                      entries, (lo + hi) \div 2 + 1, hi)

\* malloc as one of several requests that must all be granted
MallocAlso(m, kind) == [malloc(m, kind) EXCEPT !.ok = @ /\ m.ok]

\* A teardown that leaves total_capacity as it was: C15_ReinsertionPlacesAll
\* must tell it from Teardown.
TeardownKeepsCapacity(m, new_capacity) ==
    [DestroyLevels([m EXCEPT !.t = StealPointers(m.t)], 0) EXCEPT
       !.t.levels = NULL, !.t.num_levels = 0, !.t.count = 0]

\* rebuild steps 2-3: destroy the old levels, reset the table
Teardown(m, new_capacity) ==
    [DestroyLevels([m EXCEPT !.t = StealPointers(m.t)], 0) EXCEPT
       !.t.levels = NULL, !.t.num_levels = 0,
       !.t.count = 0, !.t.total_capacity = new_capacity]

\* lines 322-329: the end of rebuild, m5 the machine after the reinsertion
RebuildDone(m5) ==
    [m5 EXCEPT !.heap.scratch = @ - 3, !.depth = @ - 1, !.rc = 0]

\* lines 313-329: rebuild after build_levels has left m4
RebuildFill(m4, entries) ==
    IF m4.rc < 0
    THEN [FreeData(m4, entries) EXCEPT !.heap.scratch = @ - 3, !.rc = -1,
                                       !.ev = @ \cup {"unbuilt"}]
    ELSE RebuildDone(Reinsert([m4 EXCEPT !.depth = @ + 1], entries, 1, Len(entries)))

\* rebuild after the three extraction arrays have been requested: l.ok when
\* all three were granted; if not, those granted are freed, which leaves
\* `scratch` of them live as before
RebuildWith(l, scratch, new_capacity) ==
    IF ~l.ok
    THEN [l EXCEPT !.heap.scratch = scratch, !.rc = -1]
    ELSE RebuildFill(build_levels(Teardown(l, new_capacity), new_capacity),
                     ExtractEntries(l.t, 0))

rebuild(m, new_capacity) ==
    RebuildWith(MallocAlso(MallocAlso(malloc([m EXCEPT !.want = new_capacity],
                                             "scratch"), "scratch"), "scratch"),
                m.heap.scratch, new_capacity)

(***************************************************************************)
(* Public operations.                                                      *)
(***************************************************************************)
\* (size_t)(total_capacity * ratio) for ratio = pct / 100: for 0.90 and 0.15
\* and every capacity up to 4096 the double product truncates to this
Truncated(total_capacity, pct) == (total_capacity * pct) \div 100

RECURSIVE SumTombstones(_, _)
SumTombstones(t, i) ==
    IF i >= t.num_levels THEN 0
    ELSE Level(t, i).tombstones + SumTombstones(t, i + 1)

\* A copy that drops the last byte: C1_RoundTrip must tell it from CopyBytes.
CopyBytesShort(value, value_len) == SubSeq(value, 1, value_len - 1)

\* memcpy(dst, value, value_len)
CopyBytes(value, value_len) == SubSeq(value, 1, value_len)

\* lines 347-349 on the slot find_key returned
StoreValue(m2, fr, new_val, value_len) ==
    [m2 EXCEPT
       !.t.levels = Ptr([Deref(@) EXCEPT ![fr.level_idx + 1].slots =
           Ptr([Deref(@) EXCEPT ![fr.slot_idx + 1] =
               [@ EXCEPT !.value = new_val, !.value_len = value_len]])]),
       !.rc = 0]

\* lines 343-350 after malloc(value_len) has left m1
UpdateWith(m1, fr, value, value_len) ==
    IF ~m1.ok /\ value_len > 0 THEN [m1 EXCEPT !.rc = -1]
    ELSE StoreValue(free(m1, "value",
                         SlotAt(Level(m1.t, fr.level_idx), fr.slot_idx).value),
                    fr,
                    IF m1.ok THEN Ptr(CopyBytes(value, value_len)) ELSE NULL,
                    value_len)

\* lines 343-350: overwrite the value of the slot find_key returned
UpdateInPlace(m, fr, value, value_len) ==
    UpdateWith(malloc(m, "value"), fr, value, value_len)

\* A guard that compares count with total_capacity * max_load without the
\* truncation to size_t: C17_LoadGuardAtFloor must tell it from LoadGuard.
LoadGuardUntruncated(m) ==
    IF 100 * m.t.count >= m.t.total_capacity * m.t.max_load
    THEN rebuild([m EXCEPT !.ev = @ \cup {"load"}], m.t.total_capacity * 2)
    ELSE m

\* A guard that fires one entry late, when count has passed the threshold:
\* C20_LoadBounded must tell it from LoadGuard.
LoadGuardLate(m) ==
    IF m.t.count > Truncated(m.t.total_capacity, m.t.max_load)
    THEN rebuild([m EXCEPT !.ev = @ \cup {"load"}], m.t.total_capacity * 2)
    ELSE m

\* lines 353-355
LoadGuard(m) ==
    IF m.t.count >= Truncated(m.t.total_capacity, m.t.max_load)
    THEN rebuild([m EXCEPT !.ev = @ \cup {"load"}], m.t.total_capacity * 2)
    ELSE m

\* A guard that compares the Tombstones with max_load instead of
\* tombstone_ratio: C16_TombstoneCompaction must tell it from TombstoneGuard.
TombstoneGuardWrongRatio(m) ==
    IF SumTombstones(m.t, 0) >= Truncated(m.t.total_capacity, m.t.max_load)
    THEN rebuild([m EXCEPT !.ev = @ \cup {"tombstone"}], m.t.total_capacity)
    ELSE m

\* lines 357-363
TombstoneGuard(m) ==
    IF SumTombstones(m.t, 0) >= Truncated(m.t.total_capacity, m.t.tombstone_ratio)
    THEN rebuild([m EXCEPT !.ev = @ \cup {"tombstone"}], m.t.total_capacity)
    ELSE m

\* lines 368-376 after strdup and malloc have left vd with kdup and vdup
InsertCopies(vd, kdup, vdup, value_len) ==
    IF kdup = NULL \/ (vdup = NULL /\ value_len > 0)
    THEN [free(free(vd, "key", kdup), "value", vdup) EXCEPT !.rc = -1]
    ELSE insert_owned([vd EXCEPT !.ev = @ \cup {"place"}], kdup, vdup, value_len)

\* line 366 after strdup has left kd
CopyValue(kd, kdup, value, value_len) ==
    InsertCopies(malloc(kd, "value"), kdup,
                 IF malloc(kd, "value").ok THEN Ptr(CopyBytes(value, value_len))
                 ELSE NULL,
                 value_len)

\* lines 365-376
CopyAndInsert(m, key, value, value_len) ==
    CopyValue(malloc(m, "key"), IF malloc(m, "key").ok THEN Ptr(key) ELSE NULL,
              value, value_len)

\* lines 357-376 after the load guard has left m2
AfterTombstoneGuard(m2, key, value, value_len) ==
    IF m2.rc < 0 THEN [m2 EXCEPT !.rc = -1]
    ELSE CopyAndInsert(m2, key, value, value_len)

\* lines 353-376 after the load guard has left m1
AfterLoadGuard(m1, key, value, value_len) ==
    IF m1.rc < 0 THEN [m1 EXCEPT !.rc = -1]
    ELSE AfterTombstoneGuard(TombstoneGuard(m1), key, value, value_len)

\* An insert that places a present key again instead of updating it:
\* C4_UpdateInPlace must tell it from InsertFound.
InsertFoundAgain(m, fr, key, value, value_len) ==
    AfterLoadGuard(LoadGuard(m), key, value, value_len)

\* eht_insert after find_key has returned fr
InsertFound(m, fr, key, value, value_len) ==
    IF fr.level_idx >= 0
    THEN UpdateInPlace([m EXCEPT !.ev = @ \cup {"update"}], fr, value, value_len)
    ELSE AfterLoadGuard(LoadGuard(m), key, value, value_len)

eht_insert(m, key, value, value_len) ==
    InsertFound(m, find_key(m.t, key), key, value, value_len)

\* eht_get after find_key has returned fr
GetAt(t, fr) ==
    IF fr.level_idx < 0 THEN [found |-> 0, value |-> NULL, len |-> 0]
    ELSE [found |-> 1,
          value |-> SlotAt(Level(t, fr.level_idx), fr.slot_idx).value,
          len |-> SlotAt(Level(t, fr.level_idx), fr.slot_idx).value_len]

\* found is the return value; value and len are the out-parameters, left as
\* the caller set them (NULL, 0) when the key is not found
eht_get(t, key) == GetAt(t, find_key(t, key))

slot_free_data(s) == [s EXCEPT !.key = NULL, !.value = NULL, !.value_len = 0]

\* A delete that empties the slot instead of leaving a Tombstone:
\* C14_SlotLifecycle must tell it from DeleteSlot.
DeleteSlotEmpties(m, fr, s) ==
    [free(free(m, "key", s.key), "value", s.value) EXCEPT
       !.t.levels = Ptr([Deref(@) EXCEPT ![fr.level_idx + 1] =
           [@ EXCEPT !.slots = Ptr([Deref(@) EXCEPT ![fr.slot_idx + 1] =
                           [slot_free_data(@) EXCEPT !.state = SLOT_EMPTY]]),
                     !.count = @ - 1]]),
       !.t.count = @ - 1,
       !.rc = 1]

\* lines 405-411 on slot s = the slot find_key returned
DeleteSlot(m, fr, s) ==
    [free(free(m, "key", s.key), "value", s.value) EXCEPT
       !.t.levels = Ptr([Deref(@) EXCEPT ![fr.level_idx + 1] =
           [@ EXCEPT !.slots = Ptr([Deref(@) EXCEPT ![fr.slot_idx + 1] =
                           [slot_free_data(@) EXCEPT !.state = SLOT_TOMBSTONE]]),
                     !.count = @ - 1,
                     !.tombstones = @ + 1]]),
       !.t.count = @ - 1,
       !.rc = 1]

\* A delete that compacts the table at once instead of leaving a Tombstone
\* for a later insert: C19_DeleteAndLookupsFrame must tell it from DeleteAt.
DeleteAtCompacts(m, fr) ==
    IF fr.level_idx < 0 THEN [m EXCEPT !.rc = 0]
    ELSE [rebuild(DeleteSlot(m, fr, SlotAt(Level(m.t, fr.level_idx), fr.slot_idx)),
                  m.t.total_capacity) EXCEPT !.rc = 1]

\* A delete that reports the key deleted and leaves it in its slot:
\* C3_DeleteRoundTrip must tell it from DeleteAt.
DeleteAtKeeps(m, fr) ==
    IF fr.level_idx < 0 THEN [m EXCEPT !.rc = 0] ELSE [m EXCEPT !.rc = 1]

\* eht_delete after find_key has returned fr
DeleteAt(m, fr) ==
    IF fr.level_idx < 0 THEN [m EXCEPT !.rc = 0]
    ELSE DeleteSlot(m, fr, SlotAt(Level(m.t, fr.level_idx), fr.slot_idx))

eht_delete(m, key) == DeleteAt(m, find_key(m.t, key))

eht_contains(t, key) == IF find_key(t, key).level_idx >= 0 THEN 1 ELSE 0

eht_len(t) == t.count
eht_capacity(t) == t.total_capacity
eht_num_levels(t) == t.num_levels

\* lines 432-442: the entries of `out` the call writes
eht_level_stats(t, max_levels) ==
    [i \in 1..(IF t.num_levels < max_levels THEN t.num_levels ELSE max_levels) |->
        [level      |-> Level(t, i - 1).level,
         capacity   |-> Level(t, i - 1).capacity,
         count      |-> Level(t, i - 1).count,
         tombstones |-> Level(t, i - 1).tombstones]]

\* lines 195: free(t)
FreeTable(m1) == free(m1, "table", Ptr(m1.t))

\* eht_destroy on a non-NULL handle: every level, the level array, the table
eht_destroy(m) == FreeTable(DestroyLevels(m, 0))

RECURSIVE eht_iter_next(_, _)

\* lines 468-477: the scan of level sub has stopped at Occupied slot j
IterYield(it, j, s) ==
    [it |-> [it EXCEPT !.slot_idx = j + 1], rc |-> 1, key |-> s.key,
     value |-> s.value, len |-> s.value_len]

\* A scan that also stops at Tombstones: C5_IterationComplete must tell it
\* from OccupiedFrom.
OccupiedOrTombstoneFrom(sub, from) ==
    {j \in from..(sub.capacity - 1) : SlotAt(sub, j).state # SLOT_EMPTY}

\* the Occupied slots of level sub at or after slot `from`
OccupiedFrom(sub, from) ==
    {j \in from..(sub.capacity - 1) : SlotAt(sub, j).state = SLOT_OCCUPIED}

\* the slot at which the scan of a level stops: the first of `occupied`
FirstOf(occupied) == CHOOSE j \in occupied : \A i \in occupied : j <= i

\* lines 464-478: the scan of level sub from the cursor on, which skips the
\* slots that are not Occupied and moves to the next level at the end
IterLevel(t, it, sub, occupied) ==
    IF occupied = {}
    THEN eht_iter_next(t, [level_idx |-> it.level_idx + 1, slot_idx |-> 0])
    ELSE IterYield(it, FirstOf(occupied), SlotAt(sub, FirstOf(occupied)))

\* eht_iter_next from cursor it: the new cursor, the return value and the
\* borrowed key, value and length
eht_iter_next(t, it) ==
    IF it.level_idx >= t.num_levels
    THEN [it |-> it, rc |-> 0, key |-> NULL, value |-> NULL, len |-> 0]
    ELSE IterLevel(t, it, Level(t, it.level_idx),
                   OccupiedFrom(Level(t, it.level_idx), it.slot_idx))

(***************************************************************************)
(* The state machine: one caller driving one table.                        *)
(*   table    the handle: NULL, or Ptr(the ElasticHashTable struct)        *)
(*   heap     the live heap blocks                                         *)
(*   iter     the iterator: NULL, or Ptr(the EHTIterator cursor)           *)
(*   yielded  what the current iteration pass has returned so far          *)
(*   last     the last call: its arguments, its return value, whether the  *)
(*            key was present and eht_len (for an insert also eht_capacity *)
(*            and the sum of the tombstones) before it, the paths it took, *)
(*            the new_capacity of its last rebuild, and how far it         *)
(*            continues a chain of calls on one key                        *)
(*   ref      the reference map: the (key, value) pairs a plain map holds  *)
(*            after the same successful calls                              *)
(*   intro    how many keys of KeySeq the workload has introduced          *)
(*   plan     the workload: the capacity it asks eht_create for, how many  *)
(*            keys it introduces, whether the allocator may refuse         *)
(*   refused  how many requests the allocator has refused                  *)
(***************************************************************************)
VARIABLES table, heap, iter, yielded, last, ref, intro, plan, refused

vars == <<table, heap, iter, yielded, last, ref, intro, plan, refused>>

T == Deref(table)

\* Bounds of the workload.
NumKeys == 60
SmallKeys == 14
HotTail == 3
MaxFail == 9
MaxRefused == 1
MaxCapacity == 256
MaxCreate == 200
MaxEnds == 2

\* The values the workload stores: a fresh key is stored with its own bytes
\* as value, a hot key is overwritten with any of Values.
Values == {<<1>>, <<2, 3>>}

\* The workload introduces the keys in the order of KeySeq.  It inserts and
\* deletes the hot key again and again; it deletes the victim keys once and
\* in order.
KeyIndices == 1..Len(KeySeq)
HotKeys == {1}
VictimKeys == 2..10

\* A plan fixes the capacity passed to eht_create, the number of keys the
\* workload introduces, whether it deletes the victim keys, and whether the
\* allocator may refuse a request.
Plans ==
    {[n |-> 64, limit |-> NumKeys, churn |-> FALSE, oom |-> FALSE],
     [n |-> 64, limit |-> SmallKeys, churn |-> TRUE, oom |-> FALSE],
     [n |-> 0, limit |-> SmallKeys, churn |-> FALSE, oom |-> FALSE],
     [n |-> 65, limit |-> SmallKeys, churn |-> TRUE, oom |-> FALSE]}

IterPlans == {[n |-> 64, limit |-> SmallKeys, churn |-> TRUE, oom |-> FALSE]}

AllocPlans == {[n |-> 64, limit |-> SmallKeys, churn |-> TRUE, oom |-> TRUE]}

LayoutPlans ==
    {[n |-> c, limit |-> 0, churn |-> FALSE, oom |-> FALSE] : c \in 0..MaxCreate}

\* the allocation request the allocator refuses in a call (0: none)
FailPoints == IF plan.oom /\ refused < MaxRefused THEN 0..MaxFail ELSE {0}

\* the allocator has refused a request of the call that left m
RefusedIn(m) == IF m.fail \in 1..m.na THEN 1 ELSE 0

NoCall ==
    [op |-> "none", key |-> <<>>, value |-> <<>>, rc |-> 0, found |-> FALSE,
     pre_len |-> 0, pre_cap |-> 0, pre_ts |-> 0, ev |-> {}, want |-> 0,
     chain |-> "", chain_len |-> 0]

\* The chain of calls on one key that a call continues:
\*   "i"    eht_insert of an absent key returned 0
\*   "ii"   "i", then eht_insert of the same key
\*   "id"   "i", then eht_delete of the same key
\*   "idi"  "id", then eht_insert of the same key
FreshInsert(op, rc, found) == op = "insert" /\ rc = 0 /\ ~found

Chain(op, key, rc, found) ==
    IF key = last.key /\ last.chain = "i" /\ op = "insert" THEN "ii"
    ELSE IF key = last.key /\ last.chain = "i" /\ op = "delete" THEN "id"
    ELSE IF key = last.key /\ last.chain = "id" /\ op = "insert" THEN "idi"
    ELSE IF FreshInsert(op, rc, found) THEN "i"
    ELSE ""

\* eht_len before the first call of the chain
ChainLen(op, key, rc, found, pre_len) ==
    IF Chain(op, key, rc, found) \in {"ii", "id", "idi"} THEN last.chain_len
    ELSE IF Chain(op, key, rc, found) = "i" THEN pre_len
    ELSE 0

Call(op, key, value, rc, found, pre_len, ev) ==
    [op |-> op, key |-> key, value |-> value, rc |-> rc, found |-> found,
     pre_len |-> pre_len, pre_cap |-> 0, pre_ts |-> 0, ev |-> ev, want |-> 0,
     chain |-> Chain(op, key, rc, found),
     chain_len |-> ChainLen(op, key, rc, found, pre_len)]

NoYield == [entries |-> <<>>, ends |-> 0]

\* Every level of the level array has been initialised and has its slots:
\* on a table where this fails find_key, insert_owned and eht_destroy read
\* indeterminate fields or a NULL slot array, which is undefined behaviour.
WellFormed(t) ==
    \A li \in 0..(t.num_levels - 1) :
        /\ t.levels # NULL
        /\ Level(t, li).capacity >= 1
        /\ Level(t, li).slots # NULL

\* The caller holds a handle it may use, and no iteration pass is open
\* (an iterator must not be used across a mutation).
Ready == table # NULL /\ WellFormed(T) /\ iter = NULL

InitWith(plans) ==
    /\ table = NULL
    /\ heap = EmptyHeap
    /\ iter = NULL
    /\ yielded = NoYield
    /\ last = NoCall
    /\ ref = {}
    /\ intro = 0
    /\ plan \in plans
    /\ refused = 0

Init == InitWith(Plans)
InitIter == InitWith(IterPlans)
InitAlloc == InitWith(AllocPlans)
InitLayout == InitWith(LayoutPlans)

\* the return of eht_create in m
Created(m) ==
    /\ table' = IF m.rc < 0 THEN NULL ELSE Ptr(m.t)
    /\ heap' = m.heap
    /\ last' = Call("create", <<>>, <<>>, m.rc, FALSE, 0, {})
    /\ refused' = refused + RefusedIn(m)
    /\ UNCHANGED <<iter, yielded, ref, intro, plan>>

Create ==
    /\ table = NULL
    /\ last.op = "none"
    /\ \E f \in FailPoints : Created(eht_create(plan.n, heap, f))

\* the return of eht_insert in m
Inserted(m, key, value, fresh, found) ==
    /\ table' = Ptr(m.t)
    /\ heap' = m.heap
    /\ last' = [Call("insert", key, value, m.rc, found, eht_len(T), m.ev)
                   EXCEPT !.want = m.want,
                          !.pre_cap = eht_capacity(T),
                          !.pre_ts = SumTombstones(T, 0)]
    /\ ref' = IF m.rc = 0
              THEN {p \in ref : p[1] # key} \cup {<<key, value>>}
              ELSE ref
    /\ intro' = IF fresh /\ m.rc = 0 THEN intro + 1 ELSE intro
    /\ refused' = refused + RefusedIn(m)
    /\ UNCHANGED <<iter, yielded, plan>>

\* eht_insert(table, key, value, Len(value)) with allocation request f refused
Insert(key, value, f, fresh) ==
    Inserted(eht_insert(Machine(T, heap, f), key, value, Len(value)),
             key, value, fresh, eht_contains(T, key) = 1)

\* The workload inserts the next key of KeySeq.
Introduce ==
    /\ Ready
    /\ intro < plan.limit
    /\ T.total_capacity <= MaxCapacity
    /\ \E f \in FailPoints : Insert(KeySeq[intro + 1], KeySeq[intro + 1], f, TRUE)

\* The workload works on the hot key while the table is small and again
\* when the last keys are introduced; in between it only fills the table.
HotPhase == intro <= SmallKeys \/ intro + HotTail >= plan.limit

\* The workload inserts a hot key again, live or deleted, with any value.
Put ==
    /\ Ready
    /\ HotPhase
    /\ T.total_capacity <= MaxCapacity
    /\ \E i \in HotKeys, v \in Values, f \in FailPoints :
         /\ i <= intro
         /\ Insert(KeySeq[i], v, f, FALSE)

\* the return of eht_delete in m
Removed(m, key, found) ==
    /\ table' = Ptr(m.t)
    /\ heap' = m.heap
    /\ last' = Call("delete", key, <<>>, m.rc, found, eht_len(T), m.ev)
    /\ ref' = IF m.rc = 1 THEN {p \in ref : p[1] # key} ELSE ref
    /\ UNCHANGED <<iter, yielded, intro, plan, refused>>

\* eht_delete(table, KeySeq[i])
Remove(i) ==
    Removed(eht_delete(Machine(T, heap, 0), KeySeq[i]), KeySeq[i],
            eht_contains(T, KeySeq[i]) = 1)

\* The workload deletes a hot key, present or not.
Delete ==
    /\ Ready
    /\ HotPhase
    /\ \E i \in HotKeys : i <= intro /\ Remove(i)

\* The workload deletes the victim keys in the order of KeySeq, once the
\* last of them has been introduced and before it introduces another key.
Evict ==
    /\ Ready
    /\ plan.churn
    /\ \E i \in VictimKeys :
         /\ \A j \in VictimKeys : j <= intro
         /\ \A j \in KeyIndices \ (HotKeys \cup VictimKeys) : intro < j
         /\ \A j \in VictimKeys : j < i => eht_contains(T, KeySeq[j]) = 0
         /\ eht_contains(T, KeySeq[i]) = 1
         /\ Remove(i)

\* the return of eht_destroy in m
Destroyed(m) ==
    /\ table' = NULL
    /\ heap' = m.heap
    /\ last' = Call("destroy", <<>>, <<>>, 0, FALSE, eht_len(T), {})
    /\ ref' = {}
    /\ intro' = 0
    /\ UNCHANGED <<iter, yielded, plan, refused>>

\* eht_destroy(table): the handle is gone, and with it the workload
Destroy ==
    /\ Ready
    /\ Destroyed(eht_destroy(Machine(T, heap, 0)))

\* eht_iter_create: a cursor at level 0, slot 0
IterCreate ==
    /\ Ready
    /\ iter' = Ptr([level_idx |-> 0, slot_idx |-> 0])
    /\ yielded' = NoYield
    /\ last' = Call("iter_create", <<>>, <<>>, 0, FALSE, eht_len(T), {})
    /\ UNCHANGED <<table, heap, ref, intro, plan, refused>>

\* the return of eht_iter_next in r
Advanced(r) ==
    /\ iter' = Ptr(r.it)
    /\ yielded' = IF r.rc = 1
                  THEN [yielded EXCEPT !.entries = Append(@,
                           [key |-> r.key, value |-> r.value, len |-> r.len])]
                  ELSE [yielded EXCEPT !.ends = @ + 1]
    /\ last' = Call("iter_next", <<>>, <<>>, r.rc, FALSE, eht_len(T), {})
    /\ UNCHANGED <<table, heap, ref, intro, plan, refused>>

IterNext ==
    /\ iter # NULL
    /\ yielded.ends < MaxEnds
    /\ Advanced(eht_iter_next(T, Deref(iter)))

IterDestroy ==
    /\ iter # NULL
    /\ iter' = NULL
    /\ yielded' = NoYield
    /\ last' = Call("iter_destroy", <<>>, <<>>, 0, FALSE, eht_len(T), {})
    /\ UNCHANGED <<table, heap, ref, intro, plan, refused>>

\* The dense workload introduces the keys of DenseKeySeq in order.
DensePlans ==
    {[n |-> 64, limit |-> Len(DenseKeySeq), churn |-> TRUE, oom |-> FALSE]}

\* Its victims are the first keys of DenseKeySeq, one more than the
\* Tombstones at which the tombstone guard of a table of capacity 64 fires.
DenseVictims == 1..(Truncated(MIN_CAPACITY, TOMBSTONE_RATIO) + 1)

InitDense == InitWith(DensePlans)

IntroduceDense ==
    /\ Ready
    /\ intro < plan.limit
    /\ T.total_capacity <= MaxCapacity
    /\ Insert(DenseKeySeq[intro + 1], DenseKeySeq[intro + 1], 0, TRUE)

\* eht_delete(table, DenseKeySeq[i]) of a key that is present
RemoveDense(i) ==
    Removed(eht_delete(Machine(T, heap, 0), DenseKeySeq[i]), DenseKeySeq[i], TRUE)

\* The dense workload deletes the victims in the order of DenseKeySeq, when
\* it has introduced just the victims and again before it introduces its
\* last key.
EvictDense ==
    /\ Ready
    /\ intro = Cardinality(DenseVictims) \/ intro = plan.limit - 1
    /\ \E i \in DenseVictims :
         /\ \A j \in DenseVictims : j < i => eht_contains(T, DenseKeySeq[j]) = 0
         /\ eht_contains(T, DenseKeySeq[i]) = 1
         /\ RemoveDense(i)

\* The lookups of the interface, and the return value of each as a tuple
\* (eht_get: found, value, len; eht_level_stats: the entries written).
LookupOps == {"get", "contains", "len", "capacity", "num_levels", "level_stats"}

LookupReturn(t, op, key) ==
    CASE op = "get"         -> <<eht_get(t, key)>>
      [] op = "contains"    -> <<eht_contains(t, key)>>
      [] op = "len"         -> <<eht_len(t)>>
      [] op = "capacity"    -> <<eht_capacity(t)>>
      [] op = "num_levels"  -> <<eht_num_levels(t)>>
      [] op = "level_stats" -> eht_level_stats(t, MaxLevels)

\* The workload calls a lookup, on a hot key where the lookup takes a key:
\* the call assigns to nothing the table or the heap holds.
Query ==
    /\ Ready
    /\ \E op \in LookupOps, i \in HotKeys :
         last' = Call(op, IF op \in {"get", "contains"} THEN KeySeq[i] ELSE <<>>,
                      LookupReturn(T, op, KeySeq[i]), 0,
                      eht_contains(T, KeySeq[i]) = 1, eht_len(T), {})
    /\ UNCHANGED <<table, heap, iter, yielded, ref, intro, plan, refused>>

Next == Create \/ Introduce \/ Put \/ Delete \/ Evict \/ Destroy

NextQuery == Next \/ Query

NextDense == Create \/ IntroduceDense \/ EvictDense \/ Destroy

NextIter == Next \/ IterCreate \/ IterNext \/ IterDestroy

\* eht_create and the operations on an allocator that never refuses
Spec == Init /\ [][Next]_vars

\* the same with iteration passes between the mutations
SpecIter == InitIter /\ [][NextIter]_vars

\* the same workload with lookups between the mutations
SpecQuery == InitIter /\ [][NextQuery]_vars

\* the same when any one allocation request of a call may be refused
SpecAlloc == InitAlloc /\ [][Next]_vars

\* eht_create alone, for every requested capacity up to MaxCreate
SpecLayout == InitLayout /\ [][Create]_vars

\* eht_create and the dense workload on an allocator that never refuses
SpecDense == InitDense /\ [][NextDense]_vars

(***************************************************************************)
(* Properties.                                                             *)
(***************************************************************************)
\* what eht_get returns for a key stored with the bytes v
Found(v) == [found |-> 1, value |-> Ptr(v), len |-> Len(v)]
NotFound == [found |-> 0, value |-> NULL, len |-> 0]

LevelIndices(t) == 0..(t.num_levels - 1)

\* the slots of level li of t in state st
SlotsIn(t, li, st) ==
    {j \in 0..(Level(t, li).capacity - 1) : SlotAt(Level(t, li), j).state = st}

RECURSIVE SumCounts(_, _)
SumCounts(t, i) ==
    IF i >= t.num_levels THEN 0 ELSE Level(t, i).count + SumCounts(t, i + 1)

RECURSIVE SumCapacities(_, _)
SumCapacities(t, i) ==
    IF i >= t.num_levels THEN 0 ELSE Level(t, i).capacity + SumCapacities(t, i + 1)

\* C1: after eht_insert(k, v) has returned 0, eht_get(k) finds exactly the
\* bytes and the length of v and eht_contains(k) is 1, whichever path the
\* insert took (update in place, placement in any level, rebuilds).
C1_RoundTrip ==
    (table # NULL /\ last.op = "insert" /\ last.rc = 0) =>
        /\ eht_get(T, last.key) = Found(last.value)
        /\ eht_contains(T, last.key) = 1

\* an insert that doubled the table at the load guard has returned 0 and its
\* key is found
C1_Witness ==
    /\ table # NULL
    /\ last.op = "insert" /\ last.rc = 0
    /\ "load" \in last.ev
    /\ eht_get(T, last.key) = Found(last.value)

\* the keys the workload of the plan uses
PlanKeys == {KeySeq[i] : i \in 1..plan.limit}

\* C2: the table refines a key-to-value map: eht_get and eht_contains of
\* every key and eht_len agree with the reference map to which the same
\* successful inserts and deletes were applied.
C2_RefinesMap ==
    table # NULL =>
        /\ \A p \in ref : /\ eht_get(T, p[1]) = Found(p[2])
                          /\ eht_contains(T, p[1]) = 1
        /\ \A k \in PlanKeys \ {p[1] : p \in ref} :
              /\ eht_get(T, k) = NotFound
              /\ eht_contains(T, k) = 0
        /\ eht_len(T) = Cardinality(ref)

\* the attempts of key at level sub that come before the attempt reaching
\* slot idx and that probe a Tombstone
TombstonesBefore(sub, key, idx) ==
    {a \in 0..(probe_budget(sub) - 1) :
        /\ SlotAt(sub, probe_idx(dual_hash(key, sub.level).h1,
                                 dual_hash(key, sub.level).h2,
                                 a, sub.capacity)).state = SLOT_TOMBSTONE
        /\ \A b \in 0..a :
              probe_idx(dual_hash(key, sub.level).h1,
                        dual_hash(key, sub.level).h2, b, sub.capacity) # idx}

\* key is live in t behind a Tombstone of its own probe chain
BehindTombstone(t, key, fr) ==
    /\ fr.level_idx >= 0
    /\ TombstonesBefore(Level(t, fr.level_idx), key, fr.slot_idx) # {}

\* a delete has left a Tombstone earlier in the probe chain of another key,
\* which is still found with its value
C2_Witness ==
    /\ table # NULL
    /\ last.op = "delete" /\ last.rc = 1
    /\ \E p \in ref : /\ BehindTombstone(T, p[1], find_key(T, p[1]))
                      /\ eht_get(T, p[1]) = Found(p[2])

\* C3: for a key absent before, after eht_insert has returned 0 and
\* eht_delete of the key is called, eht_delete returns 1, eht_get finds
\* nothing, eht_contains is 0 and eht_len is what it was before the insert;
\* a following eht_insert(k, w) that returns 0 makes eht_get(k) return w.
C3_DeleteRoundTrip ==
    /\ (table # NULL /\ last.chain = "id") =>
          /\ last.rc = 1
          /\ eht_get(T, last.key) = NotFound
          /\ eht_contains(T, last.key) = 0
          /\ eht_len(T) = last.chain_len
    /\ (table # NULL /\ last.chain = "idi" /\ last.rc = 0) =>
          eht_get(T, last.key) = Found(last.value)

\* insert, delete, insert of one key: the second insert has taken the
\* Tombstone's slot or another one, and the key is found with the new value
C3_Witness ==
    /\ table # NULL
    /\ last.chain = "idi" /\ last.rc = 0
    /\ last.value = <<2, 3>>
    /\ eht_get(T, last.key) = Found(<<2, 3>>)

\* t with the value and the length of the slot at fr replaced by those of s
WithValueOf(t, fr, s) ==
    [t EXCEPT !.levels = Ptr([Deref(@) EXCEPT ![fr.level_idx + 1].slots =
        Ptr([Deref(@) EXCEPT ![fr.slot_idx + 1] =
            [@ EXCEPT !.value = s.value, !.value_len = s.value_len]])])]

\* t1 and t2 differ at most in the value and the length of the slot at fr
SameButValue(t1, t2, fr) ==
    WithValueOf(t2, fr, SlotAt(Level(t1, fr.level_idx), fr.slot_idx)) = t1

\* a step that is a successful eht_insert of a key that was present
UpdateStep ==
    /\ table # NULL
    /\ table' # NULL
    /\ last'.op = "insert" /\ last'.found /\ last'.rc = 0

\* C4: eht_insert(k, v2) of a present key makes eht_get(k) return v2 and
\* changes nothing else: eht_len, every level's count, tombstones and
\* capacity, the slot that holds k, total_capacity and the layout stay, and
\* no rebuild runs, whatever the load and the tombstones; and insert(k, v1)
\* then insert(k, v2) of an absent key raise eht_len by exactly 1.
C4_UpdateInPlace ==
    [][/\ UpdateStep =>
            /\ eht_get(T', last'.key) = Found(last'.value)
            /\ find_key(T', last'.key) = find_key(T, last'.key)
            /\ SameButValue(T, T', find_key(T, last'.key))
            /\ eht_len(T') = eht_len(T)
            /\ last'.ev = {"update"}
       /\ (table' # NULL /\ last'.chain = "ii" /\ last'.rc = 0) =>
            eht_len(T') = last'.chain_len + 1]_vars

\* a present key has been updated in place in a table whose live count had
\* reached the load threshold
C4_Witness ==
    /\ table # NULL
    /\ last.op = "insert" /\ last.found /\ last.rc = 0
    /\ T.count >= Truncated(T.total_capacity, T.max_load)
    /\ eht_get(T, last.key) = Found(last.value)

\* the keys a pass has yielded
YieldedKeys == {yielded.entries[i].key : i \in 1..Len(yielded.entries)}

\* C5: a pass over a table that is not mutated yields every live entry
\* exactly once: no key twice, only live entries with their values, and
\* once eht_iter_next has returned 0 the yielded keys are the keys for which
\* eht_contains is 1, their number is eht_len, and it returns 0 again.
C5_IterationComplete ==
    iter # NULL =>
        /\ \A i, j \in 1..Len(yielded.entries) :
              i # j => yielded.entries[i].key # yielded.entries[j].key
        /\ \A i \in 1..Len(yielded.entries) :
              /\ yielded.entries[i].key # NULL
              /\ eht_get(T, Deref(yielded.entries[i].key)) =
                    [found |-> 1, value |-> yielded.entries[i].value,
                     len |-> yielded.entries[i].len]
        /\ yielded.ends >= 1 =>
              /\ YieldedKeys = {Ptr(k) : k \in {x \in PlanKeys : eht_contains(T, x) = 1}}
              /\ Len(yielded.entries) = eht_len(T)

\* a pass over a table with live entries in two levels and a Tombstone has
\* ended and has been asked again
C5_Witness ==
    /\ iter # NULL
    /\ yielded.ends = MaxEnds
    /\ Len(yielded.entries) >= 2
    /\ Level(T, 0).tombstones >= 1
    /\ Level(T, 0).count >= 1 /\ Level(T, 1).count >= 1

\* a level of the array that subarray_init has written
Initialised(sub) == sub.level # INDETERMINATE

\* the key (field = "key") or value buffers the slots of levels i.. point to
RECURSIVE SumBuffers(_, _, _)
SumBuffers(t, i, field) ==
    IF i >= t.num_levels THEN 0
    ELSE (IF Initialised(Level(t, i)) /\ Level(t, i).slots # NULL
          THEN Len(SelectSeq(Deref(Level(t, i).slots), LAMBDA s : s[field] # NULL))
          ELSE 0)
         + SumBuffers(t, i + 1, field)

\* the blocks the table behind handle p owns
Owned(p) ==
    IF p = NULL THEN EmptyHeap
    ELSE [table   |-> 1,
          levels  |-> IF Deref(p).levels = NULL THEN 0 ELSE 1,
          slots   |-> Cardinality({li \in LevelIndices(Deref(p)) :
                          /\ Initialised(Level(Deref(p), li))
                          /\ Level(Deref(p), li).slots # NULL}),
          key     |-> SumBuffers(Deref(p), 0, "key"),
          value   |-> SumBuffers(Deref(p), 0, "value"),
          scratch |-> 0]

\* C6: when an allocation may fail, eht_insert returns 0 with the entry
\* placed or -1 with no partial entry in the table, and at a failure return
\* of eht_insert or eht_create every block allocated is freed or owned by
\* the table.
C6_FailureAtomicNoLeak ==
    /\ (table # NULL /\ last.op = "insert" /\ last.rc = 0) =>
          eht_get(T, last.key) = Found(last.value)
    /\ (table # NULL /\ last.op = "insert" /\ last.rc # 0) =>
          /\ last.rc = -1
          /\ (WellFormed(T) /\ ~last.found) => eht_contains(T, last.key) = 0
    /\ (last.op \in {"insert", "create"} /\ last.rc # 0) => heap = Owned(table)

\* C7: when build_levels fails inside rebuild, after the old levels were
\* destroyed, rebuild has freed every extracted key and value, fails, and
\* leaves count = 0, total_capacity = new_capacity and a level array whose
\* num_levels levels are all initialised.
C7_RebuildFailureValid ==
    (table # NULL /\ last.op = "insert" /\ "unbuilt" \in last.ev) =>
        /\ last.rc = -1
        /\ T.count = 0
        /\ T.total_capacity = last.want
        /\ \A li \in LevelIndices(T) :
              /\ Initialised(Level(T, li))
              /\ Level(T, li).slots # NULL

\* C8: in every level count is the number of Occupied slots and tombstones
\* the number of Tombstone slots, so that count + tombstones <= capacity,
\* and the table's count is the sum of the levels' counts.
C8_CountersMatch ==
    table # NULL =>
        /\ \A li \in LevelIndices(T) :
              /\ Level(T, li).count = Cardinality(SlotsIn(T, li, SLOT_OCCUPIED))
              /\ Level(T, li).tombstones = Cardinality(SlotsIn(T, li, SLOT_TOMBSTONE))
              /\ Level(T, li).count + Level(T, li).tombstones <= Level(T, li).capacity
        /\ eht_len(T) = SumCounts(T, 0)

\* a live entry, and Tombstones in both levels
C8_Witness ==
    /\ table # NULL
    /\ T.num_levels = 2
    /\ Level(T, 0).count >= 1 /\ Level(T, 0).tombstones >= 2
    /\ Level(T, 1).tombstones >= 1

\* C9: eht_create(n) yields total_capacity = max(n, 64) and at least two
\* levels; in every state the level capacities add up to total_capacity
\* (eht_capacity), every level has capacity >= 1 and level i has index i.
C9_CapacityAccounting ==
    table # NULL =>
        /\ last.op = "create" =>
              /\ eht_capacity(T) = IF plan.n < 64 THEN 64 ELSE plan.n
              /\ eht_num_levels(T) >= 2
        /\ SumCapacities(T, 0) = eht_capacity(T)
        /\ \A li \in LevelIndices(T) :
              /\ Level(T, li).capacity >= 1
              /\ Level(T, li).level = li

\* the cascade was exhausted and the table rebuilt to three levels
C9_Witness ==
    /\ table # NULL
    /\ "exhaust" \in last.ev
    /\ eht_capacity(T) = 128 /\ eht_num_levels(T) = 3
    /\ SumCapacities(T, 0) = 128

\* C10 as the code has it: every level but the last has capacity >=
\* min_level_size = 16, and the last level has capacity <= 2 * min_level_size.
C10_LayoutBounds ==
    table # NULL =>
        /\ \A li \in LevelIndices(T) :
              li < T.num_levels - 1 => Level(T, li).capacity >= T.min_level_size
        /\ Level(T, T.num_levels - 1).capacity <= 2 * T.min_level_size

\* a level that is not the last has exactly min_level_size slots
C10_Witness ==
    /\ table # NULL
    /\ \E li \in LevelIndices(T) :
          li < T.num_levels - 1 /\ Level(T, li).capacity = T.min_level_size

\* C10 as stated: every level but the last has capacity >= min_level_size
\* + 1 = 17, and the last level has capacity <= 2 * min_level_size = 32.
C10_LayoutBoundsStated ==
    table # NULL =>
        /\ \A li \in LevelIndices(T) :
              li < T.num_levels - 1 => Level(T, li).capacity >= T.min_level_size + 1
        /\ Level(T, T.num_levels - 1).capacity <= 2 * T.min_level_size

\* the key pointers of the Occupied slots of level li of t
KeysIn(t, li) ==
    {SlotAt(Level(t, li), j).key : j \in SlotsIn(t, li, SLOT_OCCUPIED)}

\* C11: with allocations succeeding, between public operations the live key
\* and value buffers are exactly those the Occupied slots point to, one slot
\* per buffer (an Occupied slot holds a key and a value, any other slot holds
\* no pointer, no key is held twice), beside the table, its level array and
\* one slot array per level; so a rebuild has moved the buffers without
\* copying or freeing one, and after eht_destroy no block is live.
C11_ExclusiveOwnership ==
    /\ heap = Owned(table)
    /\ table = NULL => heap = EmptyHeap
    /\ table # NULL =>
          /\ heap.key = eht_len(T) /\ heap.value = eht_len(T)
          /\ heap.slots = eht_num_levels(T) /\ heap.scratch = 0
          /\ \A li \in LevelIndices(T) :
                /\ \A j \in 0..(Level(T, li).capacity - 1) :
                      /\ (SlotAt(Level(T, li), j).state = SLOT_OCCUPIED)
                            <=> (SlotAt(Level(T, li), j).key # NULL)
                      /\ (SlotAt(Level(T, li), j).state = SLOT_OCCUPIED)
                            <=> (SlotAt(Level(T, li), j).value # NULL)
                /\ Cardinality(KeysIn(T, li)) = Level(T, li).count
                /\ \A lj \in LevelIndices(T) :
                      li # lj => KeysIn(T, li) \cap KeysIn(T, lj) = {}

\* eht_destroy of a table that had grown (more live entries than a table of
\* capacity 64 holds without the load guard firing) has freed every block
C11_Witness ==
    /\ last.op = "destroy"
    /\ last.pre_len > Truncated(MIN_CAPACITY, MAX_LOAD)
    /\ table = NULL
    /\ heap = EmptyHeap

\* C12: no key is stored in two Occupied slots, and find_key of the key of
\* every Occupied slot returns that level and slot: the current budget of
\* its level reaches it and no Empty slot comes before it in the key's
\* probe sequence.
C12_LiveKeysReachable ==
    table # NULL =>
        \A li \in LevelIndices(T) :
            \A j \in SlotsIn(T, li, SLOT_OCCUPIED) :
                /\ SlotAt(Level(T, li), j).key # NULL
                /\ find_key(T, Deref(SlotAt(Level(T, li), j).key)) =
                      [level_idx |-> li, slot_idx |-> j]

\* a key lives in a later level, and a delete has since left a Tombstone on
\* its probe sequence in level 0, which the lookup passes
C12_Witness ==
    /\ table # NULL
    /\ \E p \in ref :
          /\ find_key(T, p[1]).level_idx >= 1
          /\ TombstonesBefore(Level(T, 0), p[1], -1) # {}

\* the slot attempt a of key probes at level sub
ProbeOf(sub, key, a) ==
    probe_idx(dual_hash(key, sub.level).h1, dual_hash(key, sub.level).h2,
              a, sub.capacity)

\* the attempts of key within the budget of level sub
Attempts(sub) == 0..(probe_budget(sub) - 1)

\* the attempts of key at level sub that probe a slot that is Empty or a
\* Tombstone, which the cascade can claim
Claimable(sub, key) ==
    {a \in Attempts(sub) : SlotAt(sub, ProbeOf(sub, key, a)).state # SLOT_OCCUPIED}

\* a step that is an eht_insert of an absent key which returned 0 and ran
\* no rebuild, so that the cascade ran on the table of the state before
PlaceStepOnly ==
    /\ table # NULL
    /\ table' # NULL
    /\ last'.op = "insert" /\ ~last'.found /\ last'.rc = 0
    /\ last'.ev = {"place"}

\* the cascade on t puts key at fr: no earlier level has a claimable slot
\* within its budget, and fr is the slot of the first claimable attempt of
\* its level
FirstClaimable(t, key, fr) ==
    /\ fr.level_idx >= 0
    /\ \A li \in 0..(fr.level_idx - 1) : Claimable(Level(t, li), key) = {}
    /\ \E a \in Claimable(Level(t, fr.level_idx), key) :
          /\ ProbeOf(Level(t, fr.level_idx), key, a) = fr.slot_idx
          /\ \A b \in Claimable(Level(t, fr.level_idx), key) : a <= b

\* the counters of level li after the cascade on t has claimed slot idx
\* there: count one more; tombstones one less and count + tombstones the
\* same for a Tombstone, tombstones the same and count + tombstones one more
\* for an Empty slot
ClaimCounted(t, t2, li, idx) ==
    /\ Level(t2, li).count = Level(t, li).count + 1
    /\ SlotAt(Level(t, li), idx).state = SLOT_TOMBSTONE =>
          /\ Level(t2, li).tombstones = Level(t, li).tombstones - 1
          /\ Level(t2, li).count + Level(t2, li).tombstones =
                Level(t, li).count + Level(t, li).tombstones
    /\ SlotAt(Level(t, li), idx).state = SLOT_EMPTY =>
          /\ Level(t2, li).tombstones = Level(t, li).tombstones
          /\ Level(t2, li).count + Level(t2, li).tombstones =
                Level(t, li).count + Level(t, li).tombstones + 1

\* C13: the insert cascade places a new key in the first slot, by level
\* index and then by attempt within the budget, that is Empty or a
\* Tombstone; a claimed Tombstone lowers the level's tombstones and leaves
\* its count + tombstones, a claimed Empty slot raises count + tombstones
\* by one.
C13_FirstClaimableSlot ==
    [][PlaceStepOnly =>
          /\ FirstClaimable(T, last'.key, find_key(T', last'.key))
          /\ ClaimCounted(T, T', find_key(T', last'.key).level_idx,
                          find_key(T', last'.key).slot_idx)]_vars

\* a new key has been placed in level 1, all its attempts in level 0 being
\* Occupied, on a slot that was a Tombstone or in a table that holds one
C13_Witness ==
    /\ table # NULL
    /\ last.op = "insert" /\ ~last.found /\ last.rc = 0
    /\ last.ev = {"place"}
    /\ find_key(T, last.key).level_idx = 1
    /\ last.pre_ts >= 1

\* the paths of a call that rebuild the levels
RebuildEvents == {"load", "tombstone", "exhaust", "nested"}

\* a step that is an eht_insert or an eht_delete during which no rebuild ran
StepBetweenRebuilds ==
    /\ table # NULL
    /\ table' # NULL
    /\ last'.op \in {"insert", "delete"}
    /\ last'.ev \cap RebuildEvents = {}

\* the moves a slot makes between two rebuilds
SlotMoves ==
    {<<SLOT_EMPTY, SLOT_OCCUPIED>>, <<SLOT_OCCUPIED, SLOT_TOMBSTONE>>,
     <<SLOT_TOMBSTONE, SLOT_OCCUPIED>>}

\* the moves an operation may make
MovesOf(op) ==
    IF op = "delete" THEN {<<SLOT_OCCUPIED, SLOT_TOMBSTONE>>}
    ELSE {<<SLOT_EMPTY, SLOT_OCCUPIED>>, <<SLOT_TOMBSTONE, SLOT_OCCUPIED>>}

\* C14: in a step without a rebuild the levels stay and every slot keeps
\* its state or moves Empty -> Occupied (insert), Occupied -> Tombstone
\* (delete) or Tombstone -> Occupied (insert), never back to Empty; so no
\* level's count + tombstones and no level's probe budget decreases.
C14_SlotLifecycle ==
    [][StepBetweenRebuilds =>
          /\ eht_num_levels(T') = eht_num_levels(T)
          /\ \A li \in LevelIndices(T) :
                /\ Level(T', li).capacity = Level(T, li).capacity
                /\ \A j \in 0..(Level(T, li).capacity - 1) :
                      \/ SlotAt(Level(T', li), j).state = SlotAt(Level(T, li), j).state
                      \/ <<SlotAt(Level(T, li), j).state,
                           SlotAt(Level(T', li), j).state>>
                            \in (SlotMoves \cap MovesOf(last'.op))
                /\ Level(T', li).count + Level(T', li).tombstones >=
                      Level(T, li).count + Level(T, li).tombstones
                /\ probe_budget(Level(T', li)) >= probe_budget(Level(T, li))]_vars

\* a key was inserted on an Empty slot, deleted, and inserted again on a
\* Tombstone, with no rebuild since
C14_Witness ==
    /\ table # NULL
    /\ last.chain = "idi" /\ last.rc = 0
    /\ last.ev = {"place"}
    /\ last.pre_ts >= 1
    /\ SumTombstones(T, 0) = last.pre_ts - 1

\* a call that was an eht_insert of an absent key, returned 0 and ran a
\* rebuild
RebuiltInsert ==
    /\ table # NULL
    /\ last.op = "insert" /\ ~last.found /\ last.rc = 0
    /\ last.ev \cap RebuildEvents # {}

\* the new_capacity the guards and the cascade of the call ask rebuild for:
\* twice the capacity at the load guard, the same at the tombstone guard,
\* twice again at an exhausted cascade
AskedCapacity ==
    last.pre_cap * (IF "load" \in last.ev THEN 2 ELSE 1)
                 * (IF "exhaust" \in last.ev THEN 2 ELSE 1)

\* every entry of the reference map is found with its value
AllRetrievable ==
    /\ \A p \in ref : eht_get(T, p[1]) = Found(p[2])
    /\ eht_len(T) = Cardinality(ref)

\* C15 as the code has it: a rebuild places every extracted entry; when no
\* reinsertion exhausts the cascade it ends with total_capacity =
\* new_capacity (a compaction leaves total_capacity as it was), and when one
\* does, nested rebuilds have doubled the capacity once or more.
C15_ReinsertionPlacesAll ==
    RebuiltInsert =>
        /\ AllRetrievable
        /\ "nested" \notin last.ev => eht_capacity(T) = AskedCapacity
        /\ "nested" \in last.ev =>
              eht_capacity(T) \in {AskedCapacity * 2, AskedCapacity * 4,
                                   AskedCapacity * 8}

\* a compaction of a table of capacity 64 has exhausted the cascade while
\* reinserting, and the table has come out with capacity 128 and every
\* entry in it
C15_Witness ==
    /\ RebuiltInsert
    /\ last.ev = {"tombstone", "nested", "place"}
    /\ last.pre_cap = MIN_CAPACITY
    /\ eht_capacity(T) = 2 * MIN_CAPACITY
    /\ eht_len(T) = last.pre_len + 1
    /\ AllRetrievable

\* C15 as stated: no reinsertion exhausts the cascade, so no nested rebuild
\* occurs, every rebuild ends with total_capacity = new_capacity, and a
\* compaction leaves total_capacity as it was.
C15_ReinsertionNeverExhausts ==
    RebuiltInsert =>
        /\ AllRetrievable
        /\ "nested" \notin last.ev
        /\ eht_capacity(T) = AskedCapacity
        /\ ("tombstone" \in last.ev /\ "exhaust" \notin last.ev) =>
              eht_capacity(T) = last.pre_cap

\* a step that is an eht_insert of an absent key which returned 0
FreshInsertStep ==
    /\ table # NULL
    /\ table' # NULL
    /\ last'.op = "insert" /\ ~last'.found /\ last'.rc = 0

\* the entries of the reference map other than key are found in t with
\* their values
OthersRetrievable(t, key) ==
    \A p \in ref : p[1] # key => eht_get(t, p[1]) = Found(p[2])

\* C16: an eht_insert of an absent key that finds, after the load guard,
\* the sum of the tombstones >= total_capacity * 0.15 rebuilds before it
\* places the key; and after an insert that rebuilt every level has
\* tombstones = 0, and the live entries are those of before with their
\* values, and the new one.
C16_TombstoneCompaction ==
    [][FreshInsertStep =>
          /\ ("load" \notin last'.ev
                /\ 100 * SumTombstones(T, 0) >= 15 * eht_capacity(T))
                => "tombstone" \in last'.ev
          /\ last'.ev \cap RebuildEvents # {} =>
                /\ \A li \in LevelIndices(T') : Level(T', li).tombstones = 0
                /\ SlotsIn(T', 0, SLOT_TOMBSTONE) = {}
                /\ OthersRetrievable(T', last'.key)
                /\ eht_get(T', last'.key) = Found(last'.value)
                /\ eht_len(T') = eht_len(T) + 1]_vars

\* an insert has found more Tombstones than 0.15 of the capacity in a table
\* with live entries, and has compacted it
C16_Witness ==
    /\ table # NULL
    /\ last.op = "insert" /\ ~last.found /\ last.rc = 0
    /\ "tombstone" \in last.ev
    /\ 100 * last.pre_ts >= 15 * last.pre_cap
    /\ last.pre_len >= 2
    /\ SumTombstones(T, 0) = 0
    /\ eht_len(T) = last.pre_len + 1

\* the last call was an eht_insert of an absent key
AbsentKeyInsert ==
    /\ table # NULL
    /\ last.op = "insert" /\ ~last.found

\* the load guard of the last call has doubled the capacity, and neither
\* the cascade nor a reinsertion has grown the table again
DoubledOnce ==
    ("load" \in last.ev /\ {"exhaust", "nested"} \cap last.ev = {}) =>
        /\ last.want = 2 * last.pre_cap
        /\ eht_capacity(T) = 2 * last.pre_cap

\* C17 as the code has it: the load guard of an eht_insert of an absent key
\* rebuilds to 2 * total_capacity if and only if count >=
\* (size_t)(total_capacity * 0.90), the product truncated to an integer; at
\* total_capacity = 64 it fires at count = 57 and not at count = 56.
C17_LoadGuardAtFloor ==
    AbsentKeyInsert =>
        /\ "load" \in last.ev <=> last.pre_len >= (9 * last.pre_cap) \div 10
        /\ DoubledOnce

\* the load guard has fired at count = 57 in a table of capacity 64
C17_Witness ==
    /\ AbsentKeyInsert
    /\ last.rc = 0
    /\ "load" \in last.ev
    /\ last.pre_cap = MIN_CAPACITY
    /\ 10 * last.pre_len < 9 * last.pre_cap
    /\ eht_capacity(T) = 2 * MIN_CAPACITY
    /\ eht_len(T) = last.pre_len + 1

\* C17 as stated: the load guard rebuilds if and only if 10 * count >=
\* 9 * total_capacity, compared exactly.
C17_LoadGuardExact ==
    AbsentKeyInsert =>
        /\ "load" \in last.ev <=> 10 * last.pre_len >= 9 * last.pre_cap
        /\ DoubledOnce

\* the last call was an eht_insert whose cascade found every level
\* exhausted
GrewAndRetried ==
    /\ table # NULL
    /\ last.op = "insert"
    /\ "exhaust" \in last.ev

\* C18: with allocations succeeding every eht_insert returns, with 0 and the
\* key stored; when its cascade exhausted every level, the table was rebuilt
\* to twice the capacity, once or a few times over, and the retry placed
\* the buffers copied before the cascade: one key and one value block per
\* entry are live, one entry more than before.
C18_InsertTerminates ==
    (table # NULL /\ last.op = "insert") =>
        /\ last.rc = 0
        /\ eht_get(T, last.key) = Found(last.value)
        /\ GrewAndRetried =>
              /\ ~last.found
              /\ eht_capacity(T) \in {AskedCapacity, AskedCapacity * 2,
                                      AskedCapacity * 4}
              /\ eht_capacity(T) = last.want
              /\ eht_num_levels(T) > CountLevels(last.pre_cap, MIN_LEVEL_SIZE)
              /\ eht_len(T) = last.pre_len + 1
              /\ heap.key = eht_len(T) /\ heap.value = eht_len(T)

\* an insert below the load threshold has exhausted the cascade, doubled
\* the table and placed its key at the retry
C18_Witness ==
    /\ GrewAndRetried
    /\ last.ev = {"exhaust", "place"}
    /\ last.rc = 0
    /\ last.pre_len < Truncated(last.pre_cap, MAX_LOAD)
    /\ eht_capacity(T) = 2 * last.pre_cap
    /\ eht_get(T, last.key) = Found(last.value)
    /\ eht_len(T) = last.pre_len + 1

\* level li of t2 has the layout of level li of t1
SameLayout(t1, t2, li) ==
    /\ Level(t2, li).level = Level(t1, li).level
    /\ Level(t2, li).capacity = Level(t1, li).capacity

\* every slot of t2 is the slot of t1 at its place, but the slot of key
SameSlotsBut(t1, t2, key) ==
    \A li \in LevelIndices(t1) :
        \A j \in 0..(Level(t1, li).capacity - 1) :
            SlotAt(Level(t1, li), j).key # Ptr(key) =>
                SlotAt(Level(t2, li), j) = SlotAt(Level(t1, li), j)

\* C19: eht_delete runs no rebuild and leaves total_capacity, num_levels and
\* the capacity of every level as they were, and every slot but the one of
\* its key where it was; eht_delete of an absent key returns 0 and changes
\* nothing; eht_get, eht_contains, eht_len, eht_capacity, eht_num_levels and
\* eht_level_stats change nothing of the table or the heap.
C19_DeleteAndLookupsFrame ==
    [][(table # NULL /\ table' # NULL) =>
          /\ last'.op = "delete" =>
                /\ last'.ev = {}
                /\ eht_capacity(T') = eht_capacity(T)
                /\ eht_num_levels(T') = eht_num_levels(T)
                /\ \A li \in LevelIndices(T) : SameLayout(T, T', li)
                /\ SameSlotsBut(T, T', last'.key)
          /\ (last'.op = "delete" /\ eht_contains(T, last'.key) = 0) =>
                /\ last'.rc = 0
                /\ table' = table
                /\ heap' = heap
          /\ last'.op \in LookupOps =>
                /\ table' = table
                /\ heap' = heap]_vars

\* eht_delete of a key that an earlier delete has removed has returned 0, in
\* a table that holds other keys and the Tombstone
C19_Witness ==
    /\ table # NULL
    /\ last.op = "delete" /\ ~last.found /\ last.rc = 0
    /\ SumTombstones(T, 0) >= 1
    /\ eht_len(T) = last.pre_len
    /\ eht_len(T) >= 2

\* some slot of t is not Occupied
HasFreeSlot(t) ==
    \E li \in LevelIndices(t) :
        Cardinality(SlotsIn(t, li, SLOT_OCCUPIED)) < Level(t, li).capacity

\* C20: after eht_create and after every eht_insert or eht_delete the live
\* count is at most floor(total_capacity * 0.90), so some slot is not
\* Occupied; and from one call to the next total_capacity never decreases,
\* and changes only in an eht_insert, to 2, 4 or 8 times what it was.
C20_LoadBounded ==
    [][table' # NULL =>
          /\ last'.op \in {"create", "insert", "delete"} =>
                /\ 10 * eht_len(T') <= 9 * eht_capacity(T')
                /\ eht_len(T') <= (9 * eht_capacity(T')) \div 10
                /\ HasFreeSlot(T')
          /\ table # NULL =>
                /\ eht_capacity(T') >= eht_capacity(T)
                /\ eht_capacity(T') # eht_capacity(T) =>
                      /\ last'.op = "insert"
                      /\ eht_capacity(T') \in {2 * eht_capacity(T),
                                               4 * eht_capacity(T),
                                               8 * eht_capacity(T)}]_vars

\* an insert has filled a table of capacity 64 to the bound, 57 entries,
\* without the load guard firing
C20_Witness ==
    /\ table # NULL
    /\ last.op = "insert" /\ last.rc = 0
    /\ last.ev = {"place"}
    /\ eht_capacity(T) = MIN_CAPACITY
    /\ eht_len(T) = Truncated(MIN_CAPACITY, MAX_LOAD)
    /\ 10 * (eht_len(T) + 1) > 9 * eht_capacity(T)

====
